------------------------------ MODULE Spec2Model ------------------------------
(***************************************************************************)
(* Model of app.py: a Streamlit page that builds two agents once per       *)
(* session (create_agent), and on "Generate" runs the research agent on    *)
(* the topic and then the script agent on the research text, each through  *)
(* safe_run_agent, which turns failures of the remote call into text       *)
(* beginning with "Error".                                                 *)
(*                                                                         *)
(* Python strings are sequences of one-character strings, so that          *)
(* startswith, the substring test and concatenation are computed.          *)
(***************************************************************************)
EXTENDS Integers, Sequences, FiniteSets, TLC

\* ------------------------------------------------------------------ bounds
MaxRuns == 2

\* ------------------------------------------------------- string literals
Marker == <<"E", "r", "r", "o", "r">>
ModelDump == <<"m", "o", "d", "e", "l", "_", "d", "u", "m", "p">>
NotInitText == <<"E", "r", "r", "o", "r", ":", " ", "A", "g", "e", "n", "t", " ", "n", "o", "t", " ", "p", "r", "o", "p", "e", "r", "l", "y", " ", "i", "n", "i", "t", "i", "a", "l", "i", "z", "e", "d">>
ErrPrefix == <<"E", "r", "r", "o", "r", ":", " ">>
AltPrefix == <<"E", "r", "r", "o", "r", " ", "p", "r", "o", "c", "e", "s", "s", "i", "n", "g", " ", "r", "e", "q", "u", "e", "s", "t", ":", " ">>
NoneStr == <<"N", "o", "n", "e">>
NoneTypeMsg == <<"'", "N", "o", "n", "e", "T", "y", "p", "e", "'", " ", "o", "b", "j", "e", "c", "t", " ", "h", "a", "s", " ", "n", "o", " ", "a", "t", "t", "r", "i", "b", "u", "t", "e", " ", "'", "s", "t", "a", "r", "t", "s", "w", "i", "t", "h", "'">>
ModelId == "meta-llama/Meta-Llama-3-8B-Instruct"
MaxTokens == 4096
ResearchInstructions == <<"Always include sources and give answer to the point.">>
ScriptInstructions == <<"Always start with a question to increase curiosity and at end of script ask a question to listeners">>

\* --------------------------------------------- inputs the environment picks
\* exception messages
MsgModelDump == <<"n", "o", " ", "a", "t", "t", "r", "i", "b", "u", "t", "e", " ", "'", "m", "o", "d", "e", "l", "_", "d", "u", "m", "p", "'">>
MsgNoRun == <<"n", "o", " ", "a", "t", "t", "r", "i", "b", "u", "t", "e", " ", "'", "r", "u", "n", "'">>
MsgRate == <<"r", "a", "t", "e", " ", "l", "i", "m", "i", "t", "e", "d">>
\* generated texts
TextOk == <<"o", "k">>
TextErrors == <<"E", "r", "r", "o", "r", "s">>
TextErr == <<"E", "r", "r">>
ReprObj == <<"<", "o", "b", "j", ">">>
\* topics typed into the text input
QEmpty == <<>>
QBlank == <<" ", " ", " ">>
QTopic == <<"a", "i">>
Queries == {QTopic, QEmpty, QBlank}

\* ------------------------------------------------------------ Python values
PyStr(s) == [t |-> "str", s |-> s]
PyNone == [t |-> "NoneType", s |-> <<>>]
\* an object of some other class; s is what its __str__ gives
PyObj(r) == [t |-> "object", s |-> r]
Unset == [t |-> "unset", s |-> <<>>]

\* str(v)
str(v) == IF v.t = "NoneType" THEN NoneStr ELSE v.s

\* startswith as an equality test
startswith_equal(s, prefix) == s = prefix

\* startswith looking for the marker followed by a colon
startswith_colon(s, prefix) ==
    /\ Len(s) >= Len(prefix) + 1
    /\ \A i \in 1..Len(prefix) : s[i] = prefix[i]
    /\ s[Len(prefix) + 1] = ":"

\* s.startswith(prefix)
startswith(s, prefix) ==
    /\ Len(s) >= Len(prefix)
    /\ \A i \in 1..Len(prefix) : s[i] = prefix[i]

\* sub in s
Contains(s, sub) ==
    \E k \in 0..(Len(s) - Len(sub)) : \A i \in 1..Len(sub) : s[k + i] = sub[i]

\* truth value of a str
Truthy(s) == Len(s) > 0

\* isinstance(e, cls) for the two classes the handlers name
IsInstance(kind, cls) == cls = "Exception" \/ kind = cls

\* ---------------------------------------------------------- agent handles
None == [role |-> "None", model |-> [id |-> "", max_tokens |-> 0], tools |-> <<>>, instructions |-> <<>>, markdown |-> FALSE]

Agent(role, instructions) ==
    [role |-> role,
     model |-> [id |-> ModelId, max_tokens |-> MaxTokens],
     tools |-> IF role = "research" THEN <<"DuckDuckGo">> ELSE <<>>,
     instructions |-> instructions,
     markdown |-> TRUE]

\* create_agent: ctor_ok is whether the Agent(...) constructor returned
create_agent(role, instructions, ctor_ok) ==
    IF ctor_ok THEN Agent(role, instructions) ELSE None

\* the None test left out
agent_is_None_skipped(agent) == FALSE

\* line 35: agent is None
agent_is_None(agent) == agent = None

\* ------------------------------------------------- outcomes of a remote call
\* Returns: for agent.run the response object (hascontent: it has a .content
\* attribute, val: that attribute, repr: str(response)); for
\* agent.model.chat the returned value is val.
Returns(hascontent, val, repr) ==
    [o |-> "return", kind |-> "", msg |-> <<>>, hascontent |-> hascontent, val |-> val, repr |-> repr]
Raises(kind, msg) ==
    [o |-> "raise", kind |-> kind, msg |-> msg, hascontent |-> FALSE, val |-> PyNone, repr |-> <<>>]

PrimaryOutcomes ==
    {Raises("ValueError", MsgRate), Raises("AttributeError", MsgNoRun),
     Raises("AttributeError", MsgModelDump), Raises("ValueError", MsgModelDump),
     Returns(TRUE, PyStr(TextOk), ReprObj), Returns(TRUE, PyStr(TextErrors), ReprObj),
     Returns(TRUE, PyStr(TextErr), ReprObj), Returns(TRUE, PyNone, ReprObj),
     Returns(FALSE, PyNone, ReprObj)}
FallbackOutcomes ==
    {Raises("ValueError", MsgRate), Raises("AttributeError", MsgNoRun),
     Raises("AttributeError", MsgModelDump),
     Returns(FALSE, PyStr(TextOk), <<>>), Returns(FALSE, PyStr(TextErrors), <<>>),
     Returns(FALSE, PyObj(ReprObj), <<>>), Returns(FALSE, PyNone, <<>>)}

\* the message compared with "model_dump" instead of searched for it
is_model_dump_error_equal(msg) == msg = ModelDump

\* line 43: "model_dump" in str(e)
is_model_dump_error(msg) == Contains(msg, ModelDump)

\* lines 38-43, 51-53: what the primary path does with the outcome of
\* agent.run; fallback: the inner try is entered; otherwise value is returned.
\* An AttributeError without "model_dump" is handled by the first except
\* clause, whose body then falls off the end: the function returns None.
PrimaryPath(out) ==
    IF out.o = "return"
    THEN [fallback |-> FALSE, value |-> IF out.hascontent THEN out.val ELSE PyStr(out.repr)]
    ELSE IF IsInstance(out.kind, "AttributeError")
    THEN IF is_model_dump_error(out.msg)
         THEN [fallback |-> TRUE, value |-> Unset]
         ELSE [fallback |-> FALSE, value |-> PyNone]
    ELSE [fallback |-> FALSE, value |-> PyStr(ErrPrefix \o out.msg)]

\* lines 44-50: what the inner try does with the outcome of agent.model.chat
FallbackPath(out) ==
    IF out.o = "return"
    THEN PyStr(str(out.val))
    ELSE PyStr(AltPrefix \o out.msg)

\* ------------------------------------------------------------------ widgets
W(w, label, data) == [w |-> w, label |-> label, data |-> data, file_name |-> "", mime |-> ""]
Download(label, data, file_name, mime) ==
    [w |-> "download_button", label |-> label, data |-> data, file_name |-> file_name, mime |-> mime]

VARIABLES
    agents_initialized, \* 'agents_initialized' in st.session_state
    research_agent,     \* st.session_state.research_agent
    script_agent,       \* st.session_state.script_agent
    created,            \* number of create_agent calls per role
    pc,                 \* position of the script run: <<stage, step>>
    runs,               \* number of script runs started
    pressed,            \* value of st.button in this run
    query,              \* value of st.text_input in this run
    frame,              \* arguments of the safe_run_agent call in progress
    research_results,   \* local of main
    script_content,     \* local of main
    ui,                 \* widgets rendered by this run, in order
    calls,              \* remote calls issued by this run, in order
    outcome             \* branch of main this run ended in

session == <<agents_initialized, research_agent, script_agent, created>>
locals == <<pressed, query, frame, research_results, script_content>>
vars == <<agents_initialized, research_agent, script_agent, created, pc, runs,
          pressed, query, frame, research_results, script_content, ui, calls, outcome>>

Stages == {"research", "script"}
NoFrame == [agent |-> None, input_text |-> <<>>]

Init ==
    /\ agents_initialized = FALSE
    /\ research_agent = None
    /\ script_agent = None
    /\ created = [r \in Stages |-> 0]
    /\ pc = <<"main", "idle">>
    /\ runs = 0
    /\ pressed = FALSE
    /\ query = <<>>
    /\ frame = NoFrame
    /\ research_results = Unset
    /\ script_content = Unset
    /\ ui = <<>>
    /\ calls = <<>>
    /\ outcome = "none"

\* the agents rebuilt on every script run
Rerun_rebuild ==
    /\ pc = <<"main", "idle">>
    /\ runs < MaxRuns
    /\ runs' = runs + 1
    /\ ui' = <<W("title", "Research & YouTube Script Generator", <<>>)>>
    /\ calls' = <<>>
    /\ outcome' = "none"
    /\ pressed' = FALSE
    /\ query' = <<>>
    /\ frame' = [agent |-> None, input_text |-> <<>>]
    /\ research_results' = Unset
    /\ script_content' = Unset
    /\ pc' = <<"main", "init">>
    /\ UNCHANGED <<agents_initialized, research_agent, script_agent, created>>

\* A script run starts (page load or any widget interaction): line 56.
Rerun ==
    /\ pc = <<"main", "idle">>
    /\ runs < MaxRuns
    /\ runs' = runs + 1
    /\ ui' = <<W("title", "Research & YouTube Script Generator", <<>>)>>
    /\ calls' = <<>>
    /\ outcome' = "none"
    /\ pressed' = FALSE
    /\ query' = <<>>
    /\ frame' = NoFrame
    /\ research_results' = Unset
    /\ script_content' = Unset
    /\ pc' = IF agents_initialized THEN <<"main", "input">> ELSE <<"main", "init">>
    /\ UNCHANGED session

\* lines 59-68
InitAgents ==
    /\ pc = <<"main", "init">>
    /\ \E okR \in BOOLEAN, okS \in BOOLEAN :
         /\ research_agent' = create_agent("research", ResearchInstructions, okR)
         /\ script_agent' = create_agent("script", ScriptInstructions, okS)
    /\ created' = [r \in Stages |-> created[r] + 1]
    /\ agents_initialized' = TRUE
    /\ pc' = <<"main", "input">>
    /\ UNCHANGED <<runs, locals, ui, calls, outcome>>

\* lines 71-76, 118-119
Input ==
    /\ pc = <<"main", "input">>
    /\ \E q \in Queries, b \in BOOLEAN :
         /\ query' = q
         /\ pressed' = b
         /\ IF b
            THEN IF Truthy(q)
                 THEN /\ pc' = <<"research", "call">>
                      /\ ui' = Append(ui, W("header", "Research Topic", <<>>))
                      /\ UNCHANGED outcome
                 ELSE /\ pc' = <<"main", "sidebar">>
                      /\ ui' = ui \o <<W("header", "Research Topic", <<>>),
                                       W("warning", "Please enter a research topic", <<>>)>>
                      /\ outcome' = "warning"
            ELSE /\ pc' = <<"main", "sidebar">>
                 /\ ui' = Append(ui, W("header", "Research Topic", <<>>))
                 /\ UNCHANGED outcome
    /\ UNCHANGED <<session, runs, frame, research_results, script_content, calls>>

\* the script stage given the topic instead of the research text
ScriptArgs_topic == [agent |-> script_agent, input_text |-> query]

\* line 80: safe_run_agent(st.session_state.research_agent, query)
ResearchArgs == [agent |-> research_agent, input_text |-> query]
\* line 88: safe_run_agent(st.session_state.script_agent, research_results)
ScriptArgs == [agent |-> script_agent, input_text |-> research_results.s]
StageArgs(stage) == IF stage = "research" THEN ResearchArgs ELSE ScriptArgs

\* the value safe_run_agent returns is bound to the stage's local
Return(stage, v) ==
    /\ pc' = <<stage, "check">>
    /\ IF stage = "research"
       THEN research_results' = v /\ UNCHANGED script_content
       ELSE script_content' = v /\ UNCHANGED research_results

Call(stage, path, input_text, out) ==
    [stage |-> stage, path |-> path, input |-> input_text, out |-> out]

\* lines 33-43, 51-53: safe_run_agent up to its return or to the inner try
SafeRunAgent(stage) ==
    /\ pc = <<stage, "call">>
    /\ LET a == StageArgs(stage) IN
         /\ frame' = a
         /\ IF agent_is_None(a.agent)
            THEN /\ Return(stage, PyStr(NotInitText))
                 /\ UNCHANGED calls
            ELSE \E out \in PrimaryOutcomes :
                   /\ calls' = Append(calls, Call(stage, "primary", a.input_text, out))
                   /\ LET r == PrimaryPath(out) IN
                        IF r.fallback
                        THEN /\ pc' = <<stage, "fallback">>
                             /\ UNCHANGED <<research_results, script_content>>
                        ELSE Return(stage, r.value)
    /\ UNCHANGED <<session, runs, pressed, query, ui, outcome>>

\* the direct model call repeated when it raises
Fallback_retry(stage) ==
    /\ pc = <<stage, "fallback">>
    /\ \E out \in FallbackOutcomes :
         /\ calls' = Append(calls, Call(stage, "fallback", frame.input_text, out))
         /\ IF out.o = "raise"
            THEN UNCHANGED <<pc, research_results, script_content>>
            ELSE Return(stage, PyStr(str(out.val)))
    /\ UNCHANGED <<session, runs, pressed, query, frame, ui, outcome>>

\* lines 44-50: agent.model.chat(input_text)
Fallback(stage) ==
    /\ pc = <<stage, "fallback">>
    /\ \E out \in FallbackOutcomes :
         /\ calls' = Append(calls, Call(stage, "fallback", frame.input_text, out))
         /\ Return(stage, FallbackPath(out))
    /\ UNCHANGED <<session, runs, pressed, query, frame, ui, outcome>>

\* lines 115-117: the handler of main's try
Unexpected(msg) ==
    /\ ui' = Append(ui, W("error", "An unexpected error occurred: ", msg))
    /\ outcome' = "unexpected"
    /\ pc' = <<"main", "sidebar">>

\* the research text not rendered
render_research_header_only(text) ==
    <<W("header", "Research Results", <<>>)>>

\* lines 83-84
render_research(text) ==
    <<W("header", "Research Results", <<>>), W("markdown", "", text)>>

\* lines 91-109
render_script(research, script) ==
    <<W("header", "YouTube Script", <<>>), W("markdown", "", script),
      Download("Download Research", research, "research.md", "text/markdown"),
      Download("Download Script", script, "youtube_script.md", "text/markdown")>>

\* lines 82-85, 112-113
CheckResearch ==
    /\ pc = <<"research", "check">>
    /\ IF research_results.t # "str"
       THEN Unexpected(NoneTypeMsg)
       ELSE IF ~startswith(research_results.s, Marker)
       THEN /\ ui' = ui \o render_research(research_results.s)
            /\ pc' = <<"script", "call">>
            /\ UNCHANGED outcome
       ELSE /\ ui' = Append(ui, W("error", "", research_results.s))
            /\ outcome' = "failed_research"
            /\ pc' = <<"main", "sidebar">>
    /\ UNCHANGED <<session, runs, locals, calls>>

\* lines 90-111
CheckScript ==
    /\ pc = <<"script", "check">>
    /\ IF script_content.t # "str"
       THEN Unexpected(NoneTypeMsg)
       ELSE IF ~startswith(script_content.s, Marker)
       THEN /\ ui' = ui \o render_script(research_results.s, script_content.s)
            /\ outcome' = "done"
            /\ pc' = <<"main", "sidebar">>
       ELSE /\ ui' = Append(ui, W("error", "", script_content.s))
            /\ outcome' = "failed_script"
            /\ pc' = <<"main", "sidebar">>
    /\ UNCHANGED <<session, runs, locals, calls>>

\* lines 122-147; an agent object is truthy, None is not
Sidebar ==
    /\ pc = <<"main", "sidebar">>
    /\ ui' = ui \o <<W("sidebar.header", "About", <<>>),
                     W("sidebar.header", "Instructions", <<>>),
                     W("sidebar.header", "System Status", <<>>),
                     IF agents_initialized
                     THEN IF research_agent # None /\ script_agent # None
                          THEN W("sidebar.success", "All systems operational", <<>>)
                          ELSE W("sidebar.error", "Agent initialization failed", <<>>)
                     ELSE W("sidebar.warning", "System initializing...", <<>>)>>
    /\ pc' = <<"main", "idle">>
    /\ UNCHANGED <<session, runs, locals, calls, outcome>>

Next ==
    \/ Rerun
    \/ InitAgents
    \/ Input
    \/ \E stage \in Stages : SafeRunAgent(stage)
    \/ \E stage \in Stages : Fallback(stage)
    \/ CheckResearch
    \/ CheckScript
    \/ Sidebar

Spec == Init /\ [][Next]_vars

TypeOK ==
    /\ agents_initialized \in BOOLEAN
    /\ runs \in 0..MaxRuns
    /\ research_results.t \in {"unset", "str", "NoneType"}
    /\ script_content.t \in {"unset", "str", "NoneType"}
    /\ outcome \in {"none", "warning", "failed_research", "failed_script", "done", "unexpected"}

\* ------------------------------------------------------------------ claims
AgentNotInit == <<"A", "g", "e", "n", "t", " ", "n", "o", "t", " ", "p", "r", "o", "p", "e", "r", "l", "y", " ", "i", "n", "i", "t", "i", "a", "l", "i", "z", "e", "d">>

\* the text begins with the marker "Error" (stated with SubSeq, apart from
\* the model's startswith)
BeginsWithError(s) == Len(s) >= 5 /\ SubSeq(s, 1, 5) = Marker
IsOkText(v) == v.t = "str" /\ ~BeginsWithError(v.s)
IsErrText(v) == v.t = "str" /\ BeginsWithError(v.s)
IsBlank(q) == \A i \in 1..Len(q) : q[i] = " "

StageResult(stage) == IF stage = "research" THEN research_results ELSE script_content
StageCalls(stage) == SelectSeq(calls, LAMBDA c : c.stage = stage)
PathCalls(stage, path) == SelectSeq(calls, LAMBDA c : c.stage = stage /\ c.path = path)
Widgets(kind) == SelectSeq(ui, LAMBDA x : x.w = kind)
RunEnded == pc = <<"main", "idle">> /\ runs > 0
KnownMalformed(out) ==
    out.o = "raise" /\ out.kind = "AttributeError" /\ Contains(out.msg, ModelDump)

\* C1: whatever the remote call does (return, the known malformed-shape
\* error, any other error, on the primary or the fallback path),
\* safe_run_agent returns text, and when the last remote call it made raised,
\* that text begins with "Error".
C1_AlwaysGenerationResult ==
    \A stage \in Stages :
        StageResult(stage) # Unset =>
            /\ StageResult(stage).t = "str"
            /\ LET sc == StageCalls(stage) IN
                 (Len(sc) > 0 /\ sc[Len(sc)].out.o = "raise") =>
                     BeginsWithError(StageResult(stage).s)

\* C2: a generate request whose topic is empty or only whitespace invokes no
\* agent, enters no stage and ends in the user-input warning.
C2_BlankTopicRejected ==
    (pressed /\ IsBlank(query)) =>
        /\ calls = <<>>
        /\ pc[1] = "main"
        /\ outcome = "warning"

\* C3: when the research stage returns an Err, the run ends in
\* Failed(research), the script agent is never invoked, and the one error
\* shown is exactly the text the research stage returned.
C3_ResearchErrStops ==
    IsErrText(research_results) =>
        /\ pc[1] # "script"
        /\ StageCalls("script") = <<>>
        /\ script_content = Unset
        /\ pc # <<"research", "check">> =>
              /\ outcome = "failed_research"
              /\ Widgets("error") = <<W("error", "", research_results.s)>>
              /\ Widgets("markdown") = <<>>

C3_Witness ==
    /\ RunEnded
    /\ outcome = "failed_research"
    /\ research_results = PyStr(ErrPrefix \o MsgRate)
    /\ Len(calls) = 1

\* C4: safe_run_agent called with None returns "Error: Agent not properly
\* initialized" for every input and makes neither the primary nor the
\* fallback remote call.
C4_NoneAgentNoCall ==
    /\ \A stage \in Stages :
          (pc = <<stage, "check">> /\ frame.agent = None) =>
              /\ StageResult(stage) = PyStr(ErrPrefix \o AgentNotInit)
              /\ StageCalls(stage) = <<>>
    /\ pc[2] = "fallback" => frame.agent # None
    /\ research_agent = None => StageCalls("research") = <<>>
    /\ script_agent = None => StageCalls("script") = <<>>

C4_Witness ==
    /\ pc = <<"script", "check">>
    /\ frame.agent = None
    /\ frame.input_text = TextOk
    /\ Len(calls) = 1

\* C5: when the primary call fails with the known malformed-response error
\* (an AttributeError naming model_dump), the direct model call is made next
\* with the same input, and if it returns a value the stage's result is the
\* stringified value.
C5_FallbackRecovers ==
    \A i \in 1..Len(calls) :
        LET c == calls[i] IN
        (c.path = "primary" /\ KnownMalformed(c.out) /\ pc # <<c.stage, "fallback">>) =>
            /\ i < Len(calls)
            /\ calls[i + 1].path = "fallback"
            /\ calls[i + 1].stage = c.stage
            /\ calls[i + 1].input = c.input
            /\ c.input = (IF c.stage = "research" THEN query ELSE research_results.s)
            /\ calls[i + 1].out.o = "return" =>
                  /\ StageResult(c.stage).t = "str"
                  /\ StageResult(c.stage).s =
                        (IF calls[i + 1].out.val.t = "NoneType" THEN NoneStr
                         ELSE calls[i + 1].out.val.s)

C5_Witness ==
    /\ Len(calls) = 2
    /\ calls[1].path = "primary" /\ KnownMalformed(calls[1].out)
    /\ calls[2] = Call("research", "fallback", QTopic, Returns(FALSE, PyObj(ReprObj), <<>>))
    /\ research_results = PyStr(ReprObj)

\* the state part of C6
C6_State ==
    (IsOkText(research_results) /\ IsErrText(script_content) /\ pc[1] = "main") =>
        /\ outcome = "failed_script"
        /\ Widgets("error") = <<W("error", "", script_content.s)>>
        /\ Widgets("markdown") = <<W("markdown", "", research_results.s)>>
        /\ Widgets("download_button") = <<>>

\* C6: when research returned Ok(researchText) and the script stage returned
\* an Err, the run ends in Failed(script) with the script error shown, and
\* researchText is still what the run delivered: it stays rendered, and it is
\* not changed once the research stage has returned.
C6_PartialSuccessKept ==
    /\ []C6_State
    /\ [][(research_results # Unset /\ pc # <<"main", "idle">>) =>
              research_results' = research_results]_vars

C6_Witness ==
    /\ RunEnded
    /\ outcome = "failed_script"
    /\ research_results = PyStr(TextOk)
    /\ script_content = PyStr(ErrPrefix \o MsgRate)

\* C7: the script agent is invoked only after the research stage returned
\* Ok(researchText), with exactly researchText as input; when the script
\* stage returns Ok(scriptText) the run ends in Done and delivers exactly
\* (researchText, scriptText); the two downloads are offered only then.
C7_ScriptAfterResearch ==
    /\ pc[1] = "script" => IsOkText(research_results)
    /\ (pc[1] = "script" /\ pc[2] # "call") =>
          frame = [agent |-> script_agent, input_text |-> research_results.s]
    /\ \A i \in 1..Len(calls) :
          calls[i].stage = "script" =>
              /\ IsOkText(research_results)
              /\ calls[i].input = research_results.s
              /\ \A j \in 1..Len(calls) : calls[j].stage = "research" => j < i
    /\ (IsOkText(script_content) /\ pc[1] = "main") =>
          /\ outcome = "done"
          /\ Widgets("markdown") =
                <<W("markdown", "", research_results.s), W("markdown", "", script_content.s)>>
          /\ Widgets("download_button") =
                <<Download("Download Research", research_results.s, "research.md", "text/markdown"),
                  Download("Download Script", script_content.s, "youtube_script.md", "text/markdown")>>
    /\ Widgets("download_button") # <<>> =>
          /\ outcome = "done"
          /\ IsOkText(research_results)
          /\ IsOkText(script_content)

C7_Witness ==
    /\ RunEnded
    /\ outcome = "done"
    /\ research_results = PyStr(TextOk)
    /\ script_content = PyStr(TextErr)
    /\ Len(calls) = 2
    /\ calls[2].input = TextOk

\* C8: a stage is classified as failed exactly when the text safe_run_agent
\* returned begins with "Error": the texts safe_run_agent builds for a None
\* agent or a raised error are all classified as failures, and so is a text
\* the model generated that begins with "Error" (after which, for the
\* research stage, the script stage is not run).
C8_PrefixClassifies ==
    /\ (research_results.t = "str" /\ pc # <<"research", "check">>) =>
          /\ (outcome = "failed_research") <=> BeginsWithError(research_results.s)
          /\ BeginsWithError(research_results.s) => (script_content = Unset /\ StageCalls("script") = <<>>)
    /\ (script_content.t = "str" /\ pc # <<"script", "check">>) =>
          ((outcome = "failed_script") <=> BeginsWithError(script_content.s))
    /\ \A stage \in Stages :
          LET sc == StageCalls(stage) IN
          (/\ StageResult(stage).t = "str"
           /\ pc[1] = "main"
           /\ \/ sc = <<>>
              \/ sc[Len(sc)].out.o = "raise") =>
                 outcome = (IF stage = "research" THEN "failed_research" ELSE "failed_script")

C8_Witness ==
    /\ RunEnded
    /\ outcome = "failed_research"
    /\ research_results = PyStr(TextErrors)
    /\ Len(calls) = 1
    /\ calls[1].out = Returns(TRUE, PyStr(TextErrors), ReprObj)

\* C9: one call of safe_run_agent makes at most one primary and at most one
\* fallback remote call, the fallback only right after that call's primary
\* failed with the known malformed-response error; a run makes at most four
\* remote calls.
C9_NoRetry ==
    /\ \A stage \in Stages :
          /\ Len(PathCalls(stage, "primary")) <= 1
          /\ Len(PathCalls(stage, "fallback")) <= 1
    /\ \A i \in 1..Len(calls) :
          calls[i].path = "fallback" =>
              /\ i > 1
              /\ calls[i - 1].path = "primary"
              /\ calls[i - 1].stage = calls[i].stage
              /\ KnownMalformed(calls[i - 1].out)
    /\ Len(calls) <= 4

C9_Witness ==
    /\ Len(calls) = 4
    /\ calls[2].path = "fallback"
    /\ calls[4].path = "fallback"
    /\ calls[4].out.o = "raise"
    /\ outcome = "failed_script"

SlotsValid ==
    /\ research_agent \in {Agent("research", ResearchInstructions), None}
    /\ script_agent \in {Agent("script", ScriptInstructions), None}
    /\ IF agents_initialized
       THEN created = [r \in Stages |-> 1]
       ELSE created = [r \in Stages |-> 0] /\ research_agent = None /\ script_agent = None
SlotsFrozen ==
    agents_initialized =>
        /\ agents_initialized'
        /\ research_agent' = research_agent
        /\ script_agent' = script_agent
        /\ created' = created
GenerateEnded == RunEnded /\ pressed /\ Truthy(query)


C10_State ==
    /\ SlotsValid
    /\ (agents_initialized /\ pressed /\ Truthy(query) /\ research_agent = None) =>
          /\ calls = <<>>
          /\ pc[1] # "script"
          /\ RunEnded => outcome = "failed_research"
    /\ (agents_initialized /\ script_agent = None) =>
          (outcome # "done" /\ StageCalls("script") = <<>>)

=============================================================================
